---- MODULE Spec2Model ----
(***************************************************************************)
(* Model of the command bridge of src-tauri/src/commands.rs: the commands  *)
(* that call the database engine (onekeepass_core::db_service) and keep    *)
(* the recent-file list of utils::AppState.preference, a Mutex<Preference>.*)
(* Every command runs as an independent asynchronous task.                 *)
(***************************************************************************)
EXTENDS Integers, Sequences, FiniteSets, TLC

\* ---------------------------------------------------------------- bounds
NumKeys == 3
MaxBatch == 2

\* Maximum length of the recent-file list kept by add_recent_file.
MaxRecentFiles == 2

\* Two commands run concurrently; a task that has returned serves the next
\* command.
Tasks == {1, 2}
\* Database keys are file paths; path i stands for "/a/<i>.kdbx".
Keys == 1 .. NumKeys
NoTask == 0
NoKey == 0

\* ------------------------------------------------------- engine outcomes
\* kp_service::error::Error as far as commands.rs looks at it: the variant,
\* and for DbFileIoError(m, ioe) the message m and ioe.kind().
LoadFailedMsg == "Database file opening failed"

NoError == [variant |-> "None", m |-> "", kind |-> "None"]

NotFoundError ==
  [variant |-> "DbFileIoError", m |-> LoadFailedMsg, kind |-> "NotFound"]

OtherError == [variant |-> "Other", m |-> "Invalid credentials", kind |-> "None"]

Errors ==
  { NotFoundError,
    [variant |-> "DbFileIoError", m |-> LoadFailedMsg, kind |-> "PermissionDenied"],
    [variant |-> "DbFileIoError", m |-> "Database file write failed", kind |-> "NotFound"],
    [variant |-> "Other", m |-> LoadFailedMsg, kind |-> "NotFound"],
    OtherError }

Ok(v) == [ok |-> TRUE, val |-> v, err |-> NoError]
Err(e) == [ok |-> FALSE, val |-> NoKey, err |-> e]
NoResult == [ok |-> FALSE, val |-> NoKey, err |-> NoError]

\* impl From<Error> for String used by `?` in a command returning
\* Result<T, String>: only the text survives, the variant and kind are lost.
ToText(e) == e.m

\* ------------------------------------------------------------- commands
TrackingCmds == {"load_kdbx", "create_kdbx", "save_as_kdbx"}
SaveCmds == {"save_kdbx", "save_all_modified_dbs"}
PassThroughCmds ==
  {"close_kdbx", "unlock_kdbx", "search_term",
   "export_main_content_as_xml", "export_as_xml",
   "update_entry_from_form_data", "update_group"}
ReadCmd == "read_app_preference"
EngineCmds == TrackingCmds \cup SaveCmds \cup PassThroughCmds
Commands == EngineCmds \cup {ReadCmd}

NoReq == [cmd |-> "none", db_key |-> NoKey, db_file_name |-> NoKey, db_keys |-> << >>]

RECURSIVE SeqsUpTo(_, _)
SeqsUpTo(S, n) ==
  IF n = 0 THEN { << >> }
  ELSE LET shorter == SeqsUpTo(S, n - 1)
       IN  shorter \cup { Append(s, x) : s \in shorter, x \in S }

Range(s) == { s[i] : i \in 1 .. Len(s) }
Count(s, k) == Cardinality({ i \in 1 .. Len(s) : s[i] = k })
NoDup(s) == \A i, j \in 1 .. Len(s) : s[i] = s[j] => i = j

\* The requests a caller can send, by command. commands.rs only forwards the
\* NewDatabase of create_kdbx and the db_key of the pass-through commands to
\* the engine, so these are drawn from one-element sets.
PassKeys == {1}
BatchKeys == {1, 2}

Requests ==
  { [cmd |-> "load_kdbx", db_key |-> NoKey, db_file_name |-> f, db_keys |-> << >>] :
      f \in Keys }
  \cup
  { [cmd |-> "create_kdbx", db_key |-> NoKey, db_file_name |-> NoKey, db_keys |-> << >>] }
  \cup
  { [cmd |-> "save_as_kdbx", db_key |-> k, db_file_name |-> f, db_keys |-> << >>] :
      k \in PassKeys, f \in Keys }
  \cup
  { [cmd |-> "save_kdbx", db_key |-> k, db_file_name |-> NoKey, db_keys |-> << >>] :
      k \in Keys }
  \cup
  { [cmd |-> c, db_key |-> k, db_file_name |-> NoKey, db_keys |-> << >>] :
      c \in PassThroughCmds, k \in PassKeys }
  \cup
  { [cmd |-> "save_all_modified_dbs", db_key |-> NoKey, db_file_name |-> NoKey, db_keys |-> ks] :
      ks \in SeqsUpTo(BatchKeys, MaxBatch) }
  \cup
  { [cmd |-> ReadCmd, db_key |-> NoKey, db_file_name |-> NoKey, db_keys |-> << >>] }

\* ------------------------------------------- preference (recent-file list)
\* A variant that keeps the prior occurrence.
Retain_keeps_all(list, k) == list

\* Vec::retain(|s| s != path)
Retain(list, k) == SelectSeq(list, LAMBDA x : x # k)

\* A variant that starts the list afresh.
InsertFront_clears(list, k) == <<k>>

\* insert(0, path) followed by truncation to the maximum length
InsertFront(list, k) == SubSeq(<<k>> \o list, 1, IF Len(list) + 1 > MaxRecentFiles
                                                  THEN MaxRecentFiles ELSE Len(list) + 1)

add_recent_file(list, k) == InsertFront(Retain(list, k), k)
remove_recent_file(list, k) == Retain(list, k)

\* AppState::get_backup_file(db_key): Option<String>, a pure derivation.
NoBackupKeys == {1}
get_backup_file(k) ==
  IF k \in NoBackupKeys THEN [some |-> FALSE, path |-> NoKey]
  ELSE [some |-> TRUE, path |-> k]

\* A variant that makes one pair per distinct key.
dbs_with_backups_distinct(ks) ==
  LET first == SelectSeq([i \in 1 .. Len(ks) |-> <<i, ks[i]>>],
                         LAMBDA p : \A j \in 1 .. (p[1] - 1) : ks[j] # p[2])
  IN  [i \in 1 .. Len(first) |-> <<first[i][2], get_backup_file(first[i][2])>>]

\* The (key, backup) pairs of save_all_modified_dbs, in input order.
dbs_with_backups(ks) == [i \in 1 .. Len(ks) |-> <<ks[i], get_backup_file(ks[i])>>]

\* ------------------------------------------------ per-command bookkeeping
\* A variant that does not look at the message.
IsNotFound_any_message(res) ==
  /\ ~res.ok
  /\ res.err.variant = "DbFileIoError"
  /\ res.err.kind = "NotFound"

\* `if let Err(DbFileIoError(m, ioe)) = &r` and
\* `if let ("Database file opening failed", NotFound) = (m, ioe.kind())`
IsNotFound(res) ==
  /\ ~res.ok
  /\ res.err.variant = "DbFileIoError"
  /\ res.err.m = LoadFailedMsg
  /\ res.err.kind = "NotFound"

\* Variants of the bookkeeping with one slip each, used to show that the
\* properties below depend on it.
load_kdbx_op_always_add(res) == "add"
load_kdbx_op_any_io_error(res) ==
  IF ~res.ok /\ res.err.variant = "DbFileIoError" /\ res.err.m = LoadFailedMsg
  THEN "remove" ELSE "add"
save_kdbx_op_adds(res) == IF res.ok THEN "add" ELSE "none"
create_kdbx_op_always_add(res) == "add"

\* What each command does to the recent list once the engine returned res.
load_kdbx_op(res) == IF IsNotFound(res) THEN "remove" ELSE "add"
create_kdbx_op(res) == IF res.ok THEN "add" ELSE "none"
save_as_kdbx_op(res) == IF res.ok THEN "add" ELSE "none"
save_kdbx_op(res) == "none"
save_all_modified_dbs_op(res) == "none"
pass_through_op(res) == "none"

RecentOp(q, res) ==
  CASE q.cmd = "load_kdbx" -> load_kdbx_op(res)
    [] q.cmd = "create_kdbx" -> create_kdbx_op(res)
    [] q.cmd = "save_as_kdbx" -> save_as_kdbx_op(res)
    [] q.cmd = "save_kdbx" -> save_kdbx_op(res)
    [] q.cmd = "save_all_modified_dbs" -> save_all_modified_dbs_op(res)
    [] OTHER -> pass_through_op(res)

save_as_kdbx_key_source(q, res) == q.db_key

\* The key handed to add_recent_file / remove_recent_file.
load_kdbx_key(q, res) == q.db_file_name
create_kdbx_key(q, res) == res.val
save_as_kdbx_key(q, res) == q.db_file_name

RecentKey(q, res) ==
  CASE q.cmd = "load_kdbx" -> load_kdbx_key(q, res)
    [] q.cmd = "create_kdbx" -> create_kdbx_key(q, res)
    [] q.cmd = "save_as_kdbx" -> save_as_kdbx_key(q, res)
    [] OTHER -> q.db_key

\* The argument the command hands to its engine call.
EngineArg(q) ==
  CASE q.cmd = "save_kdbx" -> <<q.db_key, get_backup_file(q.db_key)>>
    [] q.cmd = "save_all_modified_dbs" -> dbs_with_backups(q.db_keys)
    [] q.cmd = "save_as_kdbx" -> <<q.db_key, q.db_file_name>>
    [] q.cmd = "load_kdbx" -> <<q.db_file_name>>
    [] q.cmd = "create_kdbx" -> << >>
    [] OTHER -> <<q.db_key>>

\* Successful payloads the engine can return for a request.
EnginePayloads(q) ==
  CASE q.cmd = "load_kdbx" -> { q.db_file_name }
    [] q.cmd = "create_kdbx" -> Keys
    [] q.cmd = "save_as_kdbx" -> { q.db_file_name }
    [] q.cmd = "save_all_modified_dbs" ->
         { [i \in 1 .. Len(q.db_keys) |-> <<q.db_keys[i], b>>] : b \in BOOLEAN }
    [] OTHER -> { q.db_key }

\* Errors the engine can return for a request. Only load_kdbx looks into the
\* error, so the other commands get one representative per treatment.
EngineErrors(q) ==
  CASE q.cmd = "load_kdbx" -> Errors
    [] q.cmd \in {"create_kdbx", "save_as_kdbx"} -> {NotFoundError, OtherError}
    [] OTHER -> {NotFoundError}

Reply_swallows_not_found(res) ==
  IF res.ok \/ res.err = NotFoundError
  THEN [ok |-> TRUE, val |-> res.val, err |-> ""]
  ELSE [ok |-> FALSE, val |-> NoKey, err |-> ToText(res.err)]

\* `Ok(r?)` / `Ok(engine(..)?)`: the value delivered to the caller.
Reply(res) ==
  IF res.ok THEN [ok |-> TRUE, val |-> res.val, err |-> ""]
  ELSE [ok |-> FALSE, val |-> NoKey, err |-> ToText(res.err)]

\* ------------------------------------------------------------------ state
VARIABLES
  pc,          \* position of each task in its command
  req,         \* the request a task is serving
  r,           \* the local `r` of the command: the engine's Result, or the clone
  engine_arg,  \* the arguments of the engine calls the command has made
  lock,        \* holder of app_state.preference (std::sync::Mutex)
  recent,      \* Preference.recent_files
  before,      \* history: the list the holder of the lock found, kept for one
               \* step after its release
  response     \* the response on its way to the caller, if any

vars == <<pc, req, r, engine_arg, lock, recent, before, response>>

NoResponse ==
  [task |-> NoTask, req |-> NoReq, calls |-> << >>, engine |-> NoResult,
   reply |-> NoResult]

\* The response of task t: the request, the engine calls the command made,
\* what the engine (or the clone) gave, and what the caller receives.
ResponseOf(t, q, res) ==
  [task |-> t, req |-> q, calls |-> engine_arg[t], engine |-> res,
   reply |-> Reply(res)]

\* The list loaded from the persisted preference: any duplicate-free list
\* within the maximum length.
InitialLists == { s \in SeqsUpTo(Keys, MaxRecentFiles) : NoDup(s) }

Init ==
  /\ pc = [t \in Tasks |-> "idle"]
  /\ req = [t \in Tasks |-> NoReq]
  /\ r = [t \in Tasks |-> NoResult]
  /\ engine_arg = [t \in Tasks |-> << >>]
  /\ lock = NoTask
  /\ recent \in InitialLists
  /\ before = recent
  /\ response = NoResponse

\* ---------------------------------------------------------------- actions
\* `Ok(r?)` / `Ok(r)` / `Ok(g.clone())`: the command returns res, the caller
\* receives the payload or the error text, and the locals of the task are gone.
Return(t, res) ==
  /\ response' = ResponseOf(t, req[t], res)
  /\ pc' = [pc EXCEPT ![t] = "idle"]
  /\ req' = [req EXCEPT ![t] = NoReq]
  /\ r' = [r EXCEPT ![t] = NoResult]
  /\ engine_arg' = [engine_arg EXCEPT ![t] = << >>]

\* A variant that takes the lock before the engine call.
Dispatch_holding_lock(t) ==
  /\ response = NoResponse
  /\ pc[t] = "idle"
  /\ lock = NoTask
  /\ \E q \in Requests :
       /\ req' = [req EXCEPT ![t] = q]
       /\ engine_arg' = [engine_arg EXCEPT ![t] =
                           IF q.cmd = ReadCmd THEN << >> ELSE <<EngineArg(q)>>]
       /\ pc' = [pc EXCEPT ![t] = IF q.cmd = ReadCmd THEN "lock" ELSE "engine"]
       /\ lock' = IF q.cmd \in TrackingCmds THEN t ELSE lock
  /\ before' = recent
  /\ response' = NoResponse
  /\ UNCHANGED <<r, recent>>

\* The UI invokes a command: a new task starts. A command with an engine call
\* is inside the engine right away; read_app_preference goes for the lock.
Dispatch(t) ==
  /\ response = NoResponse
  /\ pc[t] = "idle"
  /\ \E q \in Requests :
       /\ req' = [req EXCEPT ![t] = q]
       /\ engine_arg' = [engine_arg EXCEPT ![t] =
                           IF q.cmd = ReadCmd THEN << >> ELSE <<EngineArg(q)>>]
       /\ pc' = [pc EXCEPT ![t] = IF q.cmd = ReadCmd THEN "lock" ELSE "engine"]
  /\ before' = recent
  /\ response' = NoResponse
  /\ UNCHANGED <<r, lock, recent>>

\* A variant that hands the result to the caller before the bookkeeping.
EngineReturn_replies_first(t) ==
  /\ response = NoResponse
  /\ pc[t] = "engine"
  /\ \E res \in { Ok(v) : v \in EnginePayloads(req[t]) }
                  \cup { Err(e) : e \in EngineErrors(req[t]) } :
       IF RecentOp(req[t], res) = "none"
       THEN Return(t, res)
       ELSE /\ r' = [r EXCEPT ![t] = res]
            /\ pc' = [pc EXCEPT ![t] = "lock"]
            /\ response' = ResponseOf(t, req[t], res)
            /\ UNCHANGED <<req, engine_arg>>
  /\ before' = recent
  /\ UNCHANGED <<lock, recent>>

\* A variant that calls the engine a second time when the first call failed.
EngineReturn_retries(t) ==
  /\ response = NoResponse
  /\ pc[t] = "engine"
  /\ \E res \in { Ok(v) : v \in EnginePayloads(req[t]) }
                  \cup { Err(e) : e \in EngineErrors(req[t]) } :
       IF ~res.ok /\ Len(engine_arg[t]) < 2
       THEN /\ engine_arg' = [engine_arg EXCEPT ![t] = Append(@, EngineArg(req[t]))]
            /\ response' = NoResponse
            /\ UNCHANGED <<pc, req, r>>
       ELSE IF RecentOp(req[t], res) = "none"
            THEN Return(t, res)
            ELSE /\ r' = [r EXCEPT ![t] = res]
                 /\ pc' = [pc EXCEPT ![t] = "lock"]
                 /\ response' = NoResponse
                 /\ UNCHANGED <<req, engine_arg>>
  /\ before' = recent
  /\ UNCHANGED <<lock, recent>>

\* The engine call returns Ok(payload) or Err(e). The command goes for the
\* lock if it has bookkeeping to do; otherwise `Ok(engine(..)?)` returns to
\* the caller at once.
EngineReturn(t) ==
  /\ response = NoResponse
  /\ pc[t] = "engine"
  /\ \E res \in { Ok(v) : v \in EnginePayloads(req[t]) }
                  \cup { Err(e) : e \in EngineErrors(req[t]) } :
       IF RecentOp(req[t], res) = "none"
       THEN Return(t, res)
       ELSE /\ r' = [r EXCEPT ![t] = res]
            /\ pc' = [pc EXCEPT ![t] = "lock"]
            /\ response' = NoResponse
            /\ UNCHANGED <<req, engine_arg>>
  /\ before' = recent
  /\ UNCHANGED <<lock, recent>>

\* A variant with a lock that does not exclude.
Acquire_unguarded(t) ==
  /\ response = NoResponse
  /\ pc[t] = "lock"
  /\ lock' = t
  /\ pc' = [pc EXCEPT ![t] = "locked"]
  /\ before' = recent
  /\ response' = NoResponse
  /\ UNCHANGED <<req, r, engine_arg, recent>>

\* app_state.preference.lock().unwrap()
Acquire(t) ==
  /\ response = NoResponse
  /\ pc[t] = "lock"
  /\ lock = NoTask
  /\ lock' = t
  /\ pc' = [pc EXCEPT ![t] = "locked"]
  /\ before' = recent
  /\ response' = NoResponse
  /\ UNCHANGED <<req, r, engine_arg, recent>>

\* A variant that treats a save-as as a rename: the source key is dropped too.
RetainStep_renames(t) ==
  /\ response = NoResponse
  /\ pc[t] = "locked"
  /\ req[t].cmd # ReadCmd
  /\ RecentOp(req[t], r[t]) = "add"
  /\ recent' = Retain(Retain(recent, RecentKey(req[t], r[t])), req[t].db_key)
  /\ pc' = [pc EXCEPT ![t] = "inserting"]
  /\ response' = NoResponse
  /\ UNCHANGED <<req, r, engine_arg, lock, before>>

\* First half of add_recent_file: drop the prior occurrence of the key.
RetainStep(t) ==
  /\ response = NoResponse
  /\ pc[t] = "locked"
  /\ req[t].cmd # ReadCmd
  /\ RecentOp(req[t], r[t]) = "add"
  /\ recent' = Retain(recent, RecentKey(req[t], r[t]))
  /\ pc' = [pc EXCEPT ![t] = "inserting"]
  /\ response' = NoResponse
  /\ UNCHANGED <<req, r, engine_arg, lock, before>>

\* A variant that never gives the lock back.
InsertStep_keeps_lock(t) ==
  /\ response = NoResponse
  /\ pc[t] = "inserting"
  /\ recent' = InsertFront(recent, RecentKey(req[t], r[t]))
  /\ lock' = lock
  /\ Return(t, r[t])
  /\ UNCHANGED before

\* Second half of add_recent_file: put the key in front and keep the maximum
\* length. The temporary MutexGuard is dropped at the end of the statement,
\* and `Ok(r?)` / `Ok(r)` returns.
InsertStep(t) ==
  /\ response = NoResponse
  /\ pc[t] = "inserting"
  /\ recent' = InsertFront(recent, RecentKey(req[t], r[t]))
  /\ lock' = NoTask
  /\ Return(t, r[t])
  /\ UNCHANGED before

\* remove_recent_file under the guard, which is dropped at the end of the
\* statement, and `return Ok(r?)`.
RemoveStep(t) ==
  /\ response = NoResponse
  /\ pc[t] = "locked"
  /\ req[t].cmd # ReadCmd
  /\ RecentOp(req[t], r[t]) = "remove"
  /\ recent' = remove_recent_file(recent, RecentKey(req[t], r[t]))
  /\ lock' = NoTask
  /\ Return(t, r[t])
  /\ UNCHANGED before

\* A variant that copies the preference without taking the lock.
CloneStep_unlocked(t) ==
  /\ response = NoResponse
  /\ pc[t] \in {"lock", "locked"}
  /\ req[t].cmd = ReadCmd
  /\ lock' = IF lock = t THEN NoTask ELSE lock
  /\ Return(t, Ok(recent))
  /\ UNCHANGED <<recent, before>>

\* read_app_preference: Ok(g.clone()) under the guard g, dropped on the way
\* out.
CloneStep(t) ==
  /\ response = NoResponse
  /\ pc[t] = "locked"
  /\ req[t].cmd = ReadCmd
  /\ lock' = NoTask
  /\ Return(t, Ok(recent))
  /\ UNCHANGED <<recent, before>>

\* The caller receives the response of the command that has just returned;
\* a response is taken before the tasks go on.
Receive ==
  /\ response # NoResponse
  /\ response' = NoResponse
  /\ before' = recent
  /\ UNCHANGED <<pc, req, r, engine_arg, lock, recent>>

TaskStep(t) ==
  \/ Dispatch(t)
  \/ EngineReturn(t)
  \/ Acquire(t)
  \/ RetainStep(t)
  \/ InsertStep(t)
  \/ RemoveStep(t)
  \/ CloneStep(t)

Next == Receive \/ \E t \in Tasks : TaskStep(t)

Spec == Init /\ [][Next]_vars

\* The steps of a command under way: the engine returns, the lock is granted,
\* the task runs.
Progress(t) ==
  \/ EngineReturn(t)
  \/ Acquire(t)
  \/ RetainStep(t)
  \/ InsertStep(t)
  \/ RemoveStep(t)
  \/ CloneStep(t)

\* Fair scheduling: a task that can step again and again does step (the
\* engine call returns, a free lock is granted to a waiting task in turn), and
\* a response is received.
FairSpec ==
  /\ Init /\ [][Next]_vars
  /\ WF_vars(Receive)
  /\ \A t \in Tasks : SF_vars(Progress(t))

\* ------------------------------------------------------------ properties
\* A command has just returned: its response is on its way, `before` is the
\* list it found when it took the lock (the current list if it never did).
Returned(c) == response # NoResponse /\ response.req.cmd = c

\* The not-found classification of a load failure: a file-I/O error whose
\* message is the load-failure message and whose cause is NotFound.
FailedNotFound(res) == ~res.ok /\ res.err = NotFoundError
FailedOtherwise(res) == ~res.ok /\ res.err \in Errors \ {NotFoundError}

\* The database key of a load, create or save-as call.
CallKey(q, res) == IF q.cmd = "create_kdbx" THEN res.val ELSE q.db_file_name

UntrackedCmds == SaveCmds \cup PassThroughCmds

\* Task t is inside a critical section on the Preference.
InCS(t) == pc[t] \in {"locked", "inserting"}

\* C1: a load_kdbx whose engine load fails with anything but the not-found
\* classification leaves the recent-file list as it was: when such a call
\* returns, the list is the one it found, same elements in the same order.
C1_OtherFailureKeepsList ==
  (Returned("load_kdbx") /\ FailedOtherwise(response.engine)) => recent = before

\* C2: when a successful load_kdbx, create_kdbx or save_as_kdbx has applied
\* its update and returns, the database key of the call is the first element
\* of the recent-file list and occurs in it exactly once.
C2_KeyAtFrontOnce ==
  \A c \in TrackingCmds :
    (Returned(c) /\ response.engine.ok)
      => /\ Len(recent) >= 1
         /\ recent[1] = CallKey(response.req, response.engine)
         /\ Count(recent, CallKey(response.req, response.engine)) = 1

\* A successful save-as to a new path has put the path in front of a full
\* list that had another key in front.
C2_Witness ==
  /\ Returned("save_as_kdbx") /\ response.engine.ok
  /\ Len(before) = MaxRecentFiles
  /\ response.req.db_file_name \notin Range(before)
  /\ recent[1] = response.req.db_file_name

\* C3: when a load_kdbx that failed with the not-found classification
\* returns, its update has been applied: db_file_name is not in the
\* recent-file list, whether or not it was there before, and the caller
\* receives the failure.
C3_NotFoundRemovesKey ==
  (Returned("load_kdbx") /\ FailedNotFound(response.engine))
    => /\ response.req.db_file_name \notin Range(recent)
       /\ recent = SelectSeq(before, LAMBDA x : x # response.req.db_file_name)
       /\ ~response.reply.ok
       /\ response.reply.err = LoadFailedMsg

\* A not-found load of a listed key has removed it and reports the failure.
C3_Witness ==
  /\ Returned("load_kdbx") /\ FailedNotFound(response.engine)
  /\ response.req.db_file_name \in Range(before)
  /\ Len(recent) = Len(before) - 1
  /\ ~response.reply.ok

\* C4: the caller of load_kdbx, create_kdbx, save_as_kdbx, save_kdbx and
\* save_all_modified_dbs receives an error exactly when the engine call of
\* the command returned one, and the engine's payload otherwise; a task past
\* its engine call holds the engine's result until it returns.
C4_EngineResultDelivered ==
  /\ \A c \in TrackingCmds \cup SaveCmds :
       Returned(c)
         => /\ response.reply.ok = response.engine.ok
            /\ response.engine.ok => response.reply.val = response.engine.val
            /\ ~response.engine.ok => response.reply.err = response.engine.err.m
  /\ \A t \in Tasks :
       (req[t].cmd \in TrackingCmds /\ pc[t] \in {"lock", "locked", "inserting"})
         => r[t] \in { Ok(v) : v \in EnginePayloads(req[t]) }
                       \cup { Err(e) : e \in EngineErrors(req[t]) }

\* The caller of a not-found load of an unlisted key has received the failure.
C4_Witness ==
  /\ Returned("load_kdbx")
  /\ response.engine.err = NotFoundError
  /\ response.reply = [ok |-> FALSE, val |-> NoKey, err |-> LoadFailedMsg]
  /\ recent = before

\* A key of the list found by the command that has just returned is no longer
\* listed.
Unlisted(k) == lock = NoTask /\ k \in Range(before) /\ k \notin Range(recent)

\* C5 as stated: a listed key stops being listed only through a load_kdbx of
\* that key whose failure is classified as not found.
C5_OnlyNotFoundUnlists ==
  \A k \in Keys :
    Unlisted(k)
      => /\ Returned("load_kdbx")
         /\ FailedNotFound(response.engine)
         /\ response.req.db_file_name = k

\* C5 amended: a listed key stops being listed only through a load_kdbx of
\* that key whose failure is classified as not found, or as the last entry
\* of a full list when add_recent_file puts a key in front that was not
\* listed.
C5_OnlyNotFoundOrEvictionUnlists ==
  \A k \in Keys :
    Unlisted(k)
      => \/ /\ Returned("load_kdbx")
            /\ FailedNotFound(response.engine)
            /\ response.req.db_file_name = k
         \/ /\ response # NoResponse
            /\ RecentOp(response.req, response.engine) = "add"
            /\ RecentKey(response.req, response.engine) \notin Range(before)
            /\ Len(before) = MaxRecentFiles
            /\ k = before[Len(before)]

\* A create_kdbx has evicted the last entry of a full list.
C5_Witness ==
  /\ Returned("create_kdbx") /\ response.engine.ok
  /\ Len(before) = MaxRecentFiles
  /\ Unlisted(before[Len(before)])
  /\ response.engine.val \notin Range(before)

\* C6: save_kdbx, save_all_modified_dbs, close_kdbx, unlock_kdbx,
\* search_term, the XML exports and the entry/group commands leave the
\* recent-file list unchanged whether the engine succeeds or fails: they are
\* never in a critical section, and when one returns the list is as before.
C6_UntrackedKeepList ==
  /\ \A t \in Tasks :
       req[t].cmd \in UntrackedCmds => pc[t] = "engine" /\ lock # t
  /\ \A c \in UntrackedCmds : Returned(c) => recent = before

\* A save_kdbx of a database that is not listed has succeeded, with a backup
\* path derived, and the database is still not listed.
C6_Witness ==
  /\ Returned("save_kdbx") /\ response.engine.ok
  /\ get_backup_file(response.req.db_key).some
  /\ response.req.db_key \notin Range(recent)
  /\ Len(recent) = 1

\* The recent-list call of a command on a list, applied in one piece.
Applied(q, res, list) ==
  CASE RecentOp(q, res) = "add" -> add_recent_file(list, RecentKey(q, res))
    [] RecentOp(q, res) = "remove" -> remove_recent_file(list, RecentKey(q, res))
    [] OTHER -> list

\* C7: the updates and reads of concurrent commands are serialised in the
\* order of lock acquisition: a command that returns leaves the list that
\* its add_recent_file / remove_recent_file call gives when applied in one
\* piece to the list it found on taking the lock; a holder of the lock works
\* on that list only; and read_app_preference returns the list it found, taken
\* while no update was half done.
C7_Linearizable ==
  /\ \A c \in TrackingCmds :
       Returned(c) => recent = Applied(response.req, response.engine, before)
  /\ \A t \in Tasks :
       /\ pc[t] = "locked" => recent = before
       /\ pc[t] = "inserting" => recent = Retain(before, RecentKey(req[t], r[t]))
  /\ Returned(ReadCmd)
       => /\ response.reply.ok /\ response.reply.val = before
          /\ recent = before
          /\ \A t \in Tasks : ~InCS(t)

\* A read waits for the lock while an add_recent_file is half done: the key
\* has been dropped and is not yet back in front.
C7_Witness ==
  \E t1, t2 \in Tasks :
    /\ pc[t1] = "inserting" /\ lock = t1
    /\ RecentKey(req[t1], r[t1]) \in Range(before)
    /\ recent # before
    /\ pc[t2] = "lock" /\ req[t2].cmd = ReadCmd

\* C8: no task holds the preference lock while it is inside an engine call:
\* a task inside the engine does not hold the lock, and the holder of the
\* lock is past its engine call, whose result it has.
C8_NoLockAcrossEngine ==
  \A t \in Tasks :
    /\ pc[t] = "engine" => lock # t
    /\ lock = t
         => /\ pc[t] \in {"locked", "inserting"}
            /\ req[t].cmd \in TrackingCmds => r[t] # NoResult

\* One task is inside the engine while the other holds the lock.
C8_Witness ==
  \E t1, t2 \in Tasks :
    /\ pc[t1] = "engine" /\ req[t1].cmd = "load_kdbx"
    /\ lock = t2 /\ pc[t2] = "locked"

\* C9: at most one task is inside a critical section on the Preference, and
\* a task is inside one exactly while it holds the lock, be it for an update
\* or for the copy of read_app_preference.
C9_MutualExclusion ==
  /\ \A t1, t2 \in Tasks : (InCS(t1) /\ InCS(t2)) => t1 = t2
  /\ \A t \in Tasks : InCS(t) <=> lock = t

\* A reader holds the lock while a writer waits for it.
C9_Witness ==
  \E t1, t2 \in Tasks :
    /\ InCS(t1) /\ req[t1].cmd = ReadCmd
    /\ pc[t2] = "lock" /\ req[t2].cmd \in TrackingCmds

Pos(list, k) == CHOOSE i \in 1 .. Len(list) : list[i] = k

\* The keys of list a are keys of list b and stand in the same order in both.
SameOrder(a, b) ==
  /\ Range(a) \subseteq Range(b)
  /\ \A i, j \in 1 .. Len(a) : i < j => Pos(b, a[i]) < Pos(b, a[j])

\* C11: the recent-file list never holds a key twice, and it is ordered by
\* the last successful open, latest first: a successful load, create or
\* save-as returns with its key in front of the other keys, which keep their
\* order, and a call that did not open its database returns with no key new
\* in the list or moved ahead of another.
C11_NoDupMostRecentFirst ==
  /\ NoDup(recent)
  /\ response # NoResponse
       => IF response.req.cmd \in TrackingCmds /\ response.engine.ok
          THEN /\ Len(recent) >= 1
               /\ recent[1] = CallKey(response.req, response.engine)
               /\ SameOrder(Retain(recent, recent[1]), before)
          ELSE SameOrder(recent, before)

\* C12: adding a key is idempotent. A successful load_kdbx that follows a
\* successful load of the same db_file_name (the key is in front of the list
\* it finds) leaves the list as it found it, with the key once and in front;
\* and two or three add_recent_file calls with one key give the list of a
\* single call, on every list the program reaches.
C12_AddIdempotent ==
  /\ (/\ Returned("load_kdbx") /\ response.engine.ok
      /\ Len(before) >= 1 /\ before[1] = response.req.db_file_name)
       => /\ recent = before
          /\ Count(recent, response.req.db_file_name) = 1
  /\ \A k \in Keys :
       LET once == add_recent_file(recent, k)
       IN  /\ add_recent_file(once, k) = once
           /\ add_recent_file(add_recent_file(once, k), k) = once
           /\ Count(once, k) = 1
           /\ once[1] = k

\* A repeated successful load of the key in front of a full list.
C12_Witness ==
  /\ Returned("load_kdbx") /\ response.engine.ok
  /\ Len(before) = MaxRecentFiles
  /\ before[1] = response.req.db_file_name
  /\ recent = before

\* The commands with one database and one engine operation each.
SingleDbCmds == TrackingCmds \cup {"save_kdbx"}

\* C13: there is no retry. A load_kdbx, create_kdbx, save_kdbx or
\* save_as_kdbx call has made exactly one engine call from its dispatch to
\* its return, whatever the outcome, with the arguments of the request; and
\* once its result, a failure included, is on its way to the caller the
\* command is over: the task is idle and makes no further engine call for it.
C13_NoRetry ==
  /\ \A t \in Tasks :
       req[t].cmd \in SingleDbCmds
         => /\ engine_arg[t] = <<EngineArg(req[t])>>
            /\ response.task # t
  /\ \A c \in SingleDbCmds :
       Returned(c) => response.calls = <<EngineArg(response.req)>>
  /\ \A t \in Tasks :
       response.task = t
         => /\ pc[t] = "idle"
            /\ req[t] = NoReq
            /\ engine_arg[t] = << >>

\* A failed load of a listed key is reported, after its one engine call.
C13_Witness ==
  /\ Returned("load_kdbx")
  /\ FailedOtherwise(response.engine)
  /\ Len(response.calls) = 1
  /\ ~response.reply.ok
  /\ response.req.db_file_name \in Range(before)

\* The three conditions of the not-found classification, on the structured
\* error of the engine.
IsFileIoVariant(res) == ~res.ok /\ res.err.variant = "DbFileIoError"
HasLoadFailedMessage(res) == ~res.ok /\ res.err.m = "Database file opening failed"
HasNotFoundKind(res) == ~res.ok /\ res.err.kind = "NotFound"
AllThree(res) == IsFileIoVariant(res) /\ HasLoadFailedMessage(res) /\ HasNotFoundKind(res)

\* C14: a load_kdbx call invokes remove_recent_file(db_file_name) exactly
\* when the engine's error is the file-I/O variant, its message is "Database
\* file opening failed" and its I/O kind is NotFound: a load that holds the
\* lock is about to remove exactly in that case, a load returns with its key
\* unlisted exactly in that case, and after a failure lacking any of the three
\* a key that was listed is still listed.
C14_NotFoundIsThreeWay ==
  /\ \A t \in Tasks :
       (pc[t] = "locked" /\ req[t].cmd = "load_kdbx")
         => (RecentOp(req[t], r[t]) = "remove" <=> AllThree(r[t]))
  /\ Returned("load_kdbx")
       => /\ response.req.db_file_name \notin Range(recent)
               <=> AllThree(response.engine)
          /\ (/\ ~response.engine.ok
              /\ ~AllThree(response.engine)
              /\ response.req.db_file_name \in Range(before))
               => response.req.db_file_name \in Range(recent)

\* A load of a listed key failed with the file-I/O variant and kind NotFound
\* under another message: the key is still listed.
C14_Witness ==
  /\ Returned("load_kdbx")
  /\ IsFileIoVariant(response.engine) /\ HasNotFoundKind(response.engine)
  /\ ~HasLoadFailedMessage(response.engine)
  /\ response.req.db_file_name \in Range(before)
  /\ response.req.db_file_name \in Range(recent)

\* The list a load, create or save-as call leaves, from the list it found
\* and the structured result of its engine call.
Expected(q, res, list) ==
  CASE q.cmd = "load_kdbx" ->
         IF AllThree(res) THEN remove_recent_file(list, q.db_file_name)
         ELSE add_recent_file(list, q.db_file_name)
    [] q.cmd = "create_kdbx" ->
         IF res.ok THEN add_recent_file(list, res.val) ELSE list
    [] q.cmd = "save_as_kdbx" ->
         IF res.ok THEN add_recent_file(list, q.db_file_name) ELSE list

\* The step hands out the response of a command c.
Delivers(c) ==
  response = NoResponse /\ response' # NoResponse /\ response'.req.cmd = c

\* C15: in a load_kdbx, create_kdbx or save_as_kdbx call the engine returns
\* first, the lock is taken with the engine's structured result in hand, the
\* list is changed under the lock only, and the result goes to the caller
\* with the step that completes the update and releases the lock (or, for a
\* failed create or save-as, which has no update, with the return of the
\* engine), its error flattened to text only there. So when the response is
\* received the update is in the list and no update of that command is
\* pending, and a read returns the list as it is when it holds the lock.
C15_UpdateBeforeDelivery ==
  [][ /\ \A t \in Tasks :
           (lock # t /\ lock' = t /\ req[t].cmd \in TrackingCmds)
             => /\ pc[t] = "lock"
                /\ r[t] # NoResult
                /\ r'[t] = r[t]
      /\ recent' # recent
           => \E t \in Tasks :
                /\ lock = t
                /\ pc[t] \in {"locked", "inserting"}
                /\ req[t].cmd \in TrackingCmds
                /\ response = NoResponse
      /\ \A c \in TrackingCmds :
           Delivers(c)
             => LET t == response'.task
                    q == response'.req
                    res == response'.engine
                IN  /\ q = req[t]
                    /\ IF q.cmd \in {"create_kdbx", "save_as_kdbx"} /\ ~res.ok
                       THEN pc[t] = "engine" /\ recent' = recent /\ lock' = lock
                       ELSE /\ lock = t /\ lock' = NoTask
                            /\ res = r[t]
                            /\ recent' = Expected(q, res, before)
                    /\ response'.reply.ok = res.ok
                    /\ ~res.ok => response'.reply.err = res.err.m
                    /\ pc'[t] = "idle"
      /\ (response # NoResponse /\ response' = NoResponse
          /\ response.req.cmd \in TrackingCmds)
           => /\ recent = Expected(response.req, response.engine, before)
              /\ recent' = recent
              /\ lock # response.task
              /\ pc[response.task] = "idle"
      /\ Delivers(ReadCmd)
           => /\ lock = response'.task
              /\ response'.reply.val = recent
    ]_vars

\* A create_kdbx has put its new key in front and returns while a read waits
\* for the lock.
C15_Witness ==
  /\ Returned("create_kdbx") /\ response.engine.ok
  /\ recent[1] = response.engine.val
  /\ response.engine.val \notin Range(before)
  /\ lock = NoTask
  /\ \E t \in Tasks : pc[t] = "lock" /\ req[t].cmd = ReadCmd

\* C16: save_all_modified_dbs makes exactly one engine call, whose argument
\* has one (key, get_backup_file(key)) pair for every input key, in the input
\* order, for the empty list and for repeated keys alike, and the caller
\* receives the engine's list of outcomes as the engine returned it.
C16_SaveAllBatch ==
  /\ \A t \in Tasks :
       req[t].cmd = "save_all_modified_dbs"
         => /\ Len(engine_arg[t]) = 1
            /\ Len(engine_arg[t][1]) = Len(req[t].db_keys)
            /\ \A i \in 1 .. Len(req[t].db_keys) :
                 engine_arg[t][1][i]
                   = <<req[t].db_keys[i], get_backup_file(req[t].db_keys[i])>>
  /\ Returned("save_all_modified_dbs")
       => /\ Len(response.calls) = 1
          /\ Len(response.calls[1]) = Len(response.req.db_keys)
          /\ \A i \in 1 .. Len(response.req.db_keys) :
               response.calls[1][i]
                 = <<response.req.db_keys[i], get_backup_file(response.req.db_keys[i])>>
          /\ response.reply.ok = response.engine.ok
          /\ response.engine.ok
               => /\ response.reply.val = response.engine.val
                  /\ Len(response.reply.val) = Len(response.req.db_keys)

\* A batch with one key twice, which has a backup path, has been saved.
C16_Witness ==
  /\ Returned("save_all_modified_dbs") /\ response.engine.ok
  /\ Len(response.req.db_keys) = 2
  /\ response.req.db_keys[1] = response.req.db_keys[2]
  /\ get_backup_file(response.req.db_keys[1]).some
  /\ Len(response.reply.val) = 2

CreatingCmds == {"create_kdbx", "save_as_kdbx"}

\* C17: a create_kdbx or save_as_kdbx whose engine operation fails returns
\* the error without taking the preference lock and leaves the recent-file
\* list as it was: such a command asks for the lock only with a successful
\* result in hand, and when it returns a failure it comes straight from the
\* engine call, with the list and the lock untouched.
C17_FailedCreateKeepsList ==
  [][ /\ \A t \in Tasks :
           (req[t].cmd \in CreatingCmds /\ pc[t] \in {"lock", "locked", "inserting"})
             => r[t].ok
      /\ \A t \in Tasks :
           (lock # t /\ lock' = t /\ req[t].cmd \in CreatingCmds) => r[t].ok
      /\ \A c \in CreatingCmds :
           (Delivers(c) /\ ~response'.engine.ok)
             => /\ pc[response'.task] = "engine"
                /\ lock # response'.task /\ lock' = lock
                /\ recent' = recent
                /\ ~response'.reply.ok
                /\ response'.reply.err = response'.engine.err.m
    ]_vars

\* A save-as to an unlisted path has failed; the list is as it was.
C17_Witness ==
  /\ Returned("save_as_kdbx") /\ ~response.engine.ok
  /\ ~response.reply.ok
  /\ response.req.db_file_name \notin Range(recent)
  /\ Len(recent) < MaxRecentFiles
  /\ recent = before

\* List a is the beginning of list b.
IsPrefix(a, b) == Len(a) <= Len(b) /\ a = SubSeq(b, 1, Len(a))

\* C18: a load_kdbx, create_kdbx or save_as_kdbx call for key k takes the
\* lock at most once (it gives the lock back only in the step in which it
\* returns) and does one list operation under it, an add (removal of the
\* prior occurrence, then insertion in front) or a remove, never one after
\* the other; and when it returns, the other keys are those it found, in the
\* same order, except that the last of them is gone if the add put k in
\* front of a list that the other keys filled.
C18_OnlyOwnKey ==
  [][ /\ \A t \in Tasks :
           (lock = t /\ req[t].cmd \in TrackingCmds)
             => LET k == RecentKey(req[t], r[t])
                IN  /\ lock' # t => response'.task = t /\ pc'[t] = "idle"
                    /\ (pc[t] = "locked" /\ pc'[t] # "locked")
                         => /\ recent' = Retain(recent, k)
                            /\ pc'[t] \in {"inserting", "idle"}
                    /\ (pc[t] = "inserting" /\ pc'[t] # "inserting")
                         => /\ recent' = InsertFront(recent, k)
                            /\ pc'[t] = "idle"
      /\ \A t \in Tasks :
           (lock # t /\ lock' = t /\ req[t].cmd \in TrackingCmds)
             => pc[t] = "lock" /\ response.task # t
      /\ \A c \in TrackingCmds :
           Delivers(c)
             => LET k == CallKey(response'.req, response'.engine)
                    others == Retain(before', k)
                    kept == Retain(recent', k)
                IN  /\ IsPrefix(kept, others)
                    /\ Len(others) - Len(kept) <= 1
                    /\ Len(kept) < Len(others)
                         => /\ Len(others) = MaxRecentFiles
                            /\ recent'[1] = k
    ]_vars

\* A successful load of the last key of a full list has moved it to the
\* front; the other key is second.
C18_Witness ==
  /\ Returned("load_kdbx") /\ response.engine.ok
  /\ Len(before) = MaxRecentFiles
  /\ before[Len(before)] = response.req.db_file_name
  /\ recent = <<response.req.db_file_name>> \o SubSeq(before, 1, Len(before) - 1)

\* C19: a successful save_as_kdbx(db_key, db_file_name) returns with
\* db_file_name in front of the recent-file list, and it does not take the
\* source key out: a db_key that was listed and is not db_file_name is still
\* listed, unless it was the last entry of a full list and db_file_name came
\* in new.
C19_SaveAsKeepsSource ==
  (Returned("save_as_kdbx") /\ response.engine.ok)
    => LET src == response.req.db_key
           dst == response.req.db_file_name
           evicted == /\ Len(before) = MaxRecentFiles
                      /\ dst \notin Range(before)
                      /\ before[Len(before)] = src
       IN  /\ Len(recent) >= 1 /\ recent[1] = dst
           /\ (src \in Range(before) /\ src # dst /\ ~evicted)
                => /\ src \in Range(recent)
                   /\ Count(recent, src) = 1

\* A save-as of the only listed database to a new path: both are listed, the
\* new path first.
C19_Witness ==
  /\ Returned("save_as_kdbx") /\ response.engine.ok
  /\ before = <<response.req.db_key>>
  /\ response.req.db_file_name # response.req.db_key
  /\ recent = <<response.req.db_file_name, response.req.db_key>>

====
